---- MODULE Spec2Model ----
(***************************************************************************)
(* Model of @lilbunnyrabbit/optional (src/src/index.ts): the OptionalValue *)
(* class, its two factories and its operations.                            *)
(*                                                                         *)
(* A container is an object with identity and one private field, `value`.  *)
(* The heap is the sequence of the containers constructed so far: the      *)
(* container's identity is its index, heap[i] is its `value` field.        *)
(* `last` records the most recent call of the public API: which operation, *)
(* its receiver and arguments, what it returned, and the arguments of      *)
(* every invocation of the caller-supplied callback it made.               *)
(***************************************************************************)
EXTENDS Integers, Sequences, FiniteSets

VARIABLES heap, last

vars == <<heap, last>>

\* Largest number of containers constructed in one run.
MaxHeap == 2

(***************************************************************************)
(* JavaScript values.  Every value is a record of the same shape, so that  *)
(* values of different JavaScript types can be compared: kind is the type  *)
(* tag, n the numeric payload (the number, 0/1 for a boolean, the identity *)
(* of an object), s the textual payload (the string, "NaN" for NaN).       *)
(***************************************************************************)
JsValue(kind, n, s) == [kind |-> kind, n |-> n, s |-> s]

Undefined == JsValue("undefined", 0, "")

Null == JsValue("null", 0, "")

Num(n) == JsValue("number", n, "")

NaN == JsValue("number", 0, "NaN")

Str(s) == JsValue("string", 0, s)

Bool(b) == JsValue("boolean", IF b THEN 1 ELSE 0, "")

\* The plain object {} of identity id.
Obj(id) == JsValue("object", id, "")

\* A native Promise object that is still pending: n is its identity, s its state.
PendingPromise == JsValue("promise", 2, "pending")

\* An Error object of the given class (Error or a subtype); id 0 is the identity
\* of an object the library constructs during the call, a caller's error objects
\* have other identities.
ErrorObject(class, id, message) == JsValue(class, id, message)

ErrorClasses == {"Error", "TypeError"}

\* The values the callers of the model pass in: both absence markers, the
\* falsy values 0, "", false and NaN, and truthy values of several types.
Values ==
    {Undefined, Null, Num(0), Num(1), NaN, Str(""), Bool(FALSE), Obj(1), PendingPromise}

\* typeof value
TypeOf(value) ==
    IF value.kind \in {"null", "promise"} \cup ErrorClasses THEN "object" ELSE value.kind

\* a === b: values of one type with the same payload, NaN equal to nothing.
StrictEquals(a, b) == a = b /\ a # NaN

\* JavaScript's ToBoolean.
Truthy(value) ==
    /\ value.kind \notin {"undefined", "null"}
    /\ ~(value.kind = "number" /\ (value.n = 0 \/ value.s = "NaN"))
    /\ ~(value.kind = "string" /\ value.s = "")
    /\ ~(value.kind = "boolean" /\ value.n = 0)

OptionalValue_isPresent_truthy(value) == Truthy(value)

\* static isPresent(value): value !== undefined && value !== null
OptionalValue_isPresent(value) == value # Undefined /\ value # Null

PresentValues == {v \in Values : OptionalValue_isPresent(v)}

(***************************************************************************)
(* Construction.  An operator that may construct a container takes the     *)
(* heap h and returns the heap after the call and the container returned.  *)
(***************************************************************************)
\* new OptionalValue(value): the protected constructor stores value as is.
OptionalValue(h, value) == [heap |-> Append(h, value), ref |-> Len(h) + 1]

empty_undefined(h) == OptionalValue(h, Undefined)

\* static empty(): new OptionalValue(null)
empty(h) == OptionalValue(h, Null)

of_unchecked(h, value) == OptionalValue(h, value)

\* static of(value)
of(h, value) ==
    IF OptionalValue_isPresent(value) THEN OptionalValue(h, value) ELSE empty(h)

Optional_construct(h, value) == OptionalValue(h, value)

\* export const Optional = OptionalValue.of: the callable entry point is the
\* function of itself, which reads no receiver.
Optional(h, value) == of(h, value)

\* Optional.empty = OptionalValue.empty
Optional_empty(h) == empty(h)

(***************************************************************************)
(* Queries on the container this of heap h.                                *)
(***************************************************************************)
get(h, this) == h[this]

isPresent(h, this) == OptionalValue_isPresent(h[this])

isEmpty_falsy(h, this) == ~Truthy(h[this])

isEmpty(h, this) == ~OptionalValue_isPresent(h[this])

(***************************************************************************)
(* Caller-supplied callbacks.  A callback is a record naming the function  *)
(* the caller passes: kind names its shape, val the constant it returns,   *)
(* ref the container it has captured, inner the function a flatMap mapper  *)
(* of the shape v => Optional(f(v)) applies before wrapping.               *)
(***************************************************************************)
Callback(kind, inner, val, ref) ==
    [kind |-> kind, inner |-> inner, val |-> val, ref |-> ref]

NoCallback == Callback("none", "", Undefined, 0)

\* The error object a throwing callback throws.
ThrownError == ErrorObject("Error", 3, "callback failed")

\* () => { throw error }: a callback that throws instead of returning.
Thrower == Callback("throws", "", ThrownError, 0)

\* The callback throws when invoked: it is the thrower, or the flatMap mapper
\* (value) => Optional(f(value)) for the thrower f.
Throws(callback) ==
    callback.kind = "throws" \/ (callback.kind = "of" /\ callback.inner = "throws")

\* value > 0 for the values of the model: a number or a boolean converts to its
\* number (NaN compares false), "" and null to 0, an object and undefined to NaN.
GreaterThanZero(value) ==
    value.kind \in {"number", "boolean"} /\ value.s # "NaN" /\ value.n > 0

\* () => true, () => false, (value) => value > 0, and the thrower
Predicates ==
    {Callback(k, "", Undefined, 0) : k \in {"constTrue", "constFalse", "positive"}}
        \cup {Thrower}

ApplyPredicate(predicate, value) ==
    CASE predicate.kind = "constTrue" -> TRUE
      [] predicate.kind = "constFalse" -> FALSE
      [] predicate.kind = "positive" -> GreaterThanZero(value)
      [] OTHER -> FALSE

\* What the constant mappers return: both absence markers and two falsy values.
MapperResults == {Undefined, Null, Num(0), Bool(FALSE)}

\* (value) => c for every mapper result c, (value) => value, and the thrower
Mappers ==
    {Callback("const", "", c, 0) : c \in MapperResults}
        \cup {Callback("identity", "", Undefined, 0), Thrower}

ApplyMapper(mapper, value) ==
    CASE mapper.kind = "const" -> mapper.val
      [] mapper.kind = "identity" -> value
      [] OTHER -> Undefined

\* (value) => c for a container c constructed earlier, (value) => Optional.empty(),
\* (value) => Optional(f(value)) for every mapper f
FlatMappers(h) ==
    {Callback("existing", "", Undefined, c) : c \in DOMAIN h}
        \cup {Callback("empty", "", Undefined, 0)}
        \cup {Callback("of", f.kind, f.val, 0) : f \in Mappers}

ApplyFlatMapper(h, mapper, value) ==
    CASE mapper.kind = "existing" -> [heap |-> h, ref |-> mapper.ref]
      [] mapper.kind = "empty" -> empty(h)
      [] mapper.kind = "of" ->
            of(h, ApplyMapper(Callback(mapper.inner, "", mapper.val, 0), value))
      [] OTHER -> empty(h)

\* The values passed to orElse and returned by the suppliers of orElseGet.
Others == {Num(1), Str("")}

\* () => c for every such value c, and the thrower
Suppliers == {Callback("const", "", c, 0) : c \in Others} \cup {Thrower}

ApplySupplier(supplier) == supplier.val

(***************************************************************************)
(* Transformations.  Each returns the heap after the call, the container   *)
(* returned, and calls: the argument of every invocation of the callback,  *)
(* in order.                                                               *)
(***************************************************************************)
Returned(h, ref, calls) ==
    [heap |-> h, ref |-> ref, calls |-> calls, outcome |-> "return", val |-> Undefined]

\* The call ended by the callback throwing error: no container is returned.
Thrown(h, error, calls) ==
    [heap |-> h, ref |-> 0, calls |-> calls, outcome |-> "throw", val |-> error]

filter_inplace(h, this, predicate) ==
    IF isEmpty(h, this)
    THEN Returned(h, this, <<>>)
    ELSE IF Throws(predicate)
    THEN Thrown(h, predicate.val, <<h[this]>>)
    ELSE IF ApplyPredicate(predicate, h[this])
         THEN Returned(h, this, <<h[this]>>)
         ELSE Returned([h EXCEPT ![this] = Null], this, <<h[this]>>)

filter_eager(h, this, predicate) ==
    IF ApplyPredicate(predicate, h[this])
    THEN Returned(h, this, <<h[this]>>)
    ELSE Returned(empty(h).heap, empty(h).ref, <<h[this]>>)

filter_inverted(h, this, predicate) ==
    IF isEmpty(h, this)
    THEN Returned(h, this, <<>>)
    ELSE IF ~ApplyPredicate(predicate, h[this])
         THEN Returned(h, this, <<h[this]>>)
         ELSE Returned(empty(h).heap, empty(h).ref, <<h[this]>>)

\* filter(predicate)
filter(h, this, predicate) ==
    IF isEmpty(h, this)
    THEN Returned(h, this, <<>>)
    ELSE IF Throws(predicate)
    THEN Thrown(h, predicate.val, <<h[this]>>)
    ELSE IF ApplyPredicate(predicate, h[this])
         THEN Returned(h, this, <<h[this]>>)
         ELSE Returned(empty(h).heap, empty(h).ref, <<h[this]>>)

map_keepsReceiver(h, this, mapper) ==
    IF isEmpty(h, this)
    THEN Returned(h, this, <<>>)
    ELSE IF Throws(mapper)
    THEN Thrown(h, mapper.val, <<h[this]>>)
    ELSE LET mapped == ApplyMapper(mapper, h[this])
         IN  IF OptionalValue_isPresent(mapped)
             THEN Returned(of(h, mapped).heap, of(h, mapped).ref, <<h[this]>>)
             ELSE Returned(h, this, <<h[this]>>)

map_nocheck(h, this, mapper) ==
    IF isEmpty(h, this)
    THEN Returned(h, this, <<>>)
    ELSE LET mapped == ApplyMapper(mapper, h[this])
         IN  Returned(OptionalValue(h, mapped).heap, OptionalValue(h, mapped).ref,
                      <<h[this]>>)

\* map(mapper)
map(h, this, mapper) ==
    IF isEmpty(h, this)
    THEN Returned(h, this, <<>>)
    ELSE IF Throws(mapper)
    THEN Thrown(h, mapper.val, <<h[this]>>)
    ELSE LET mapped == ApplyMapper(mapper, h[this])
         IN  IF OptionalValue_isPresent(mapped)
             THEN Returned(of(h, mapped).heap, of(h, mapped).ref, <<h[this]>>)
             ELSE Returned(empty(h).heap, empty(h).ref, <<h[this]>>)

flatMap_eager(h, this, mapper) ==
    IF Throws(mapper)
    THEN Thrown(h, mapper.val, <<h[this]>>)
    ELSE LET r == ApplyFlatMapper(h, mapper, h[this])
         IN  Returned(r.heap, r.ref, <<h[this]>>)

flatMap_rewrap(h, this, mapper) ==
    IF isEmpty(h, this)
    THEN Returned(h, this, <<>>)
    ELSE LET r == ApplyFlatMapper(h, mapper, h[this])
         IN  Returned(of(r.heap, r.heap[r.ref]).heap, of(r.heap, r.heap[r.ref]).ref,
                      <<h[this]>>)

\* flatMap(mapper)
flatMap(h, this, mapper) ==
    IF isEmpty(h, this)
    THEN Returned(h, this, <<>>)
    ELSE IF Throws(mapper)
    THEN Thrown(h, mapper.val, <<h[this]>>)
    ELSE LET r == ApplyFlatMapper(h, mapper, h[this])
         IN  Returned(r.heap, r.ref, <<h[this]>>)

(***************************************************************************)
(* Fallbacks.  Each returns the value returned and the invocations of the  *)
(* supplier (a supplier takes no argument: an invocation is recorded as    *)
(* undefined).                                                             *)
(***************************************************************************)
Extracted(val, calls) == [val |-> val, calls |-> calls, outcome |-> "return"]

\* The call ended by the supplier throwing error.
Failed(error, calls) == [val |-> error, calls |-> calls, outcome |-> "throw"]

orElse_swapped(h, this, other) == IF isPresent(h, this) THEN other ELSE h[this]

\* orElse(other)
orElse(h, this, other) == IF isPresent(h, this) THEN h[this] ELSE other

orElseGet_throwing(h, this, other) ==
    IF isPresent(h, this)
    THEN Extracted(h[this], <<>>)
    ELSE Failed(ErrorObject("Error", 0, "Value not present."), <<>>)

orElseGet_eager(h, this, other) ==
    LET o == ApplySupplier(other)
    IN  IF isPresent(h, this)
        THEN Extracted(h[this], <<Undefined>>)
        ELSE Extracted(o, <<Undefined>>)

\* orElseGet(other)
orElseGet(h, this, other) ==
    IF isPresent(h, this)
    THEN Extracted(h[this], <<>>)
    ELSE IF Throws(other)
    THEN Failed(other.val, <<Undefined>>)
    ELSE Extracted(ApplySupplier(other), <<Undefined>>)

(***************************************************************************)
(* Comparison.  A comparator is a callback of two arguments; NoCallback    *)
(* stands for the argument left out.                                       *)
(***************************************************************************)
\* (a, b) => typeof a === typeof b, () => false, and the thrower
Comparators ==
    {Callback(k, "", Undefined, 0) : k \in {"sameType", "constFalse"}} \cup {Thrower}

ApplyComparator(comparator, a, b) ==
    CASE comparator.kind = "sameType" -> TypeOf(a) = TypeOf(b)
      [] comparator.kind = "constFalse" -> FALSE
      [] OTHER -> FALSE

Compared(bool, calls) ==
    [bool |-> bool, calls |-> calls, outcome |-> "return", val |-> Undefined]

\* The call ended by the comparator throwing error.
ComparatorThrew(error, calls) ==
    [bool |-> FALSE, calls |-> calls, outcome |-> "throw", val |-> error]

equals_thisOnly(h, this, other, comparator) ==
    IF isEmpty(h, this)
    THEN Compared(TRUE, <<>>)
    ELSE IF isEmpty(h, other)
         THEN Compared(FALSE, <<>>)
         ELSE IF Throws(comparator)
         THEN ComparatorThrew(comparator.val, <<h[this], h[other]>>)
         ELSE IF comparator # NoCallback
              THEN Compared(ApplyComparator(comparator, h[this], h[other]),
                            <<h[this], h[other]>>)
              ELSE Compared(StrictEquals(h[this], h[other]), <<>>)

equals_comparatorFirst(h, this, other, comparator) ==
    IF comparator # NoCallback
    THEN Compared(ApplyComparator(comparator, h[this], h[other]), <<h[this], h[other]>>)
    ELSE IF isEmpty(h, this) /\ isEmpty(h, other)
         THEN Compared(TRUE, <<>>)
         ELSE IF isEmpty(h, this) \/ isEmpty(h, other)
              THEN Compared(FALSE, <<>>)
              ELSE Compared(StrictEquals(h[this], h[other]), <<>>)

\* equals(other, comparator?): an invocation of the comparator is recorded as
\* the pair of its arguments.
equals(h, this, other, comparator) ==
    IF isEmpty(h, this) /\ isEmpty(h, other)
    THEN Compared(TRUE, <<>>)
    ELSE IF isEmpty(h, this) \/ isEmpty(h, other)
         THEN Compared(FALSE, <<>>)
         ELSE IF Throws(comparator)
         THEN ComparatorThrew(comparator.val, <<h[this], h[other]>>)
         ELSE IF comparator # NoCallback
              THEN Compared(ApplyComparator(comparator, h[this], h[other]),
                            <<h[this], h[other]>>)
              ELSE Compared(StrictEquals(h[this], h[other]), <<>>)

\* The values passed to contains: both absence markers, 0, 1 and NaN.
Needles == {Undefined, Null, Num(0), Num(1), NaN}

contains_noPresenceCheck(h, this, value) == StrictEquals(h[this], value)

\* contains(value)
contains(h, this, value) == isPresent(h, this) /\ StrictEquals(h[this], value)

(***************************************************************************)
(* Inspection.  A consumer is a callback called for its side effect; each  *)
(* operation returns the container returned and the invocations of the     *)
(* consumer (an invocation of ifEmpty's consumer, which takes no argument, *)
(* is recorded as undefined).                                              *)
(***************************************************************************)
\* (value) => { output = true }, and the thrower
Consumers == {Callback("record", "", Undefined, 0), Thrower}

ifPresent_truthy(h, this, consumer) ==
    IF Truthy(h[this]) THEN Returned(h, this, <<h[this]>>) ELSE Returned(h, this, <<>>)

\* ifPresent(consumer)
ifPresent(h, this, consumer) ==
    IF isPresent(h, this)
    THEN IF Throws(consumer)
         THEN Thrown(h, consumer.val, <<h[this]>>)
         ELSE Returned(h, this, <<h[this]>>)
    ELSE Returned(h, this, <<>>)

\* ifEmpty(consumer)
ifEmpty(h, this, consumer) ==
    IF isEmpty(h, this)
    THEN IF Throws(consumer)
         THEN Thrown(h, consumer.val, <<Undefined>>)
         ELSE Returned(h, this, <<Undefined>>)
    ELSE Returned(h, this, <<>>)

(***************************************************************************)
(* Raising extraction.  The argument messageOrErrorSupplier is a callback  *)
(* record: NoCallback when it is left out, kind "message" with the string  *)
(* in val when it is a string, kind "errorSupplier" with the error object  *)
(* the function returns in val when it is a function.                      *)
(***************************************************************************)
\* "No value." and the empty string
Messages == {Callback("message", "", Str(m), 0) : m \in {"", "No value."}}

\* () => TypeError("Expected type.") and () => error, for an Error object the
\* caller holds whose message is the default one
ErrorSuppliers ==
    {Callback("errorSupplier", "", ErrorObject("TypeError", 1, "Expected type."), 0),
     Callback("errorSupplier", "", ErrorObject("Error", 2, "Value not present."), 0)}

\* The argument left out, a message, an error supplier, or the thrower.
ErrorArguments == {NoCallback} \cup Messages \cup ErrorSuppliers \cup {Thrower}

\* !messageOrErrorSupplier: undefined and "" are falsy, a function is truthy.
Not(messageOrErrorSupplier) ==
    \/ messageOrErrorSupplier = NoCallback
    \/ messageOrErrorSupplier.kind = "message" /\ ~Truthy(messageOrErrorSupplier.val)

parseError_noDefault(messageOrErrorSupplier) ==
    IF messageOrErrorSupplier = NoCallback
    THEN Extracted(ErrorObject("Error", 0, ""), <<>>)
    ELSE IF messageOrErrorSupplier.kind = "message"
         THEN Extracted(ErrorObject("Error", 0, messageOrErrorSupplier.val.s), <<>>)
         ELSE Extracted(ApplySupplier(messageOrErrorSupplier), <<Undefined>>)

parseError_wrapped(messageOrErrorSupplier) ==
    IF Not(messageOrErrorSupplier)
    THEN Extracted(ErrorObject("Error", 0, "Value not present."), <<>>)
    ELSE IF messageOrErrorSupplier.kind = "message"
         THEN Extracted(ErrorObject("Error", 0, messageOrErrorSupplier.val.s), <<>>)
         ELSE Extracted(ErrorObject("Error", 0, ApplySupplier(messageOrErrorSupplier).s),
                        <<Undefined>>)

\* parseError(messageOrErrorSupplier): the error object and the invocations of
\* the supplier.
parseError(messageOrErrorSupplier) ==
    IF Not(messageOrErrorSupplier)
    THEN Extracted(ErrorObject("Error", 0, "Value not present."), <<>>)
    ELSE IF messageOrErrorSupplier.kind = "message"
         THEN Extracted(ErrorObject("Error", 0, messageOrErrorSupplier.val.s), <<>>)
         ELSE IF Throws(messageOrErrorSupplier)
         THEN Failed(messageOrErrorSupplier.val, <<Undefined>>)
         ELSE Extracted(ApplySupplier(messageOrErrorSupplier), <<Undefined>>)

\* How a call ended: outcome "return" with the value returned or "throw" with
\* the value thrown; for a call returning a promise, the state of the promise
\* at the return ("fulfilled", "rejected" or "pending") with its value or reason.
Outcome(outcome, val, calls) == [outcome |-> outcome, val |-> val, calls |-> calls]

orElseThrow_truthy(h, this, messageOrErrorSupplier) ==
    IF Truthy(h[this])
    THEN Outcome("return", h[this], <<>>)
    ELSE Outcome("throw", parseError(messageOrErrorSupplier).val,
                 parseError(messageOrErrorSupplier).calls)

\* orElseThrow(messageOrErrorSupplier?)
orElseThrow(h, this, messageOrErrorSupplier) ==
    IF isPresent(h, this)
    THEN Outcome("return", h[this], <<>>)
    ELSE Outcome("throw", parseError(messageOrErrorSupplier).val,
                 parseError(messageOrErrorSupplier).calls)

\* Promise.resolve(value): a native promise is returned as it is, any other
\* value of the model gives a promise fulfilled with it.
PromiseResolve(value) ==
    IF value.kind = "promise"
    THEN Outcome(value.s, Undefined, <<>>)
    ELSE Outcome("fulfilled", value, <<>>)

\* Promise.reject(reason)
PromiseReject(reason) == Outcome("rejected", reason, <<>>)

toPromise_catching(h, this, messageOrErrorSupplier) ==
    IF isPresent(h, this)
    THEN PromiseResolve(h[this])
    ELSE Outcome(PromiseReject(parseError(messageOrErrorSupplier).val).outcome,
                 PromiseReject(parseError(messageOrErrorSupplier).val).val,
                 parseError(messageOrErrorSupplier).calls)

\* toPromise(messageOrErrorSupplier?): the argument of Promise.reject is
\* evaluated first, so a supplier that throws ends the call before a promise
\* exists.
toPromise(h, this, messageOrErrorSupplier) ==
    IF isPresent(h, this)
    THEN PromiseResolve(h[this])
    ELSE IF parseError(messageOrErrorSupplier).outcome = "throw"
    THEN Outcome("throw", parseError(messageOrErrorSupplier).val,
                 parseError(messageOrErrorSupplier).calls)
    ELSE Outcome(PromiseReject(parseError(messageOrErrorSupplier).val).outcome,
                 PromiseReject(parseError(messageOrErrorSupplier).val).val,
                 parseError(messageOrErrorSupplier).calls)

(***************************************************************************)
(* Formatting.                                                             *)
(***************************************************************************)
Digits == <<"0", "1", "2", "3", "4", "5", "6", "7", "8", "9">>

RECURSIVE NumberToString(_)
\* The decimal text of an integer.
NumberToString(n) ==
    IF n < 0 THEN "-" \o NumberToString(0 - n)
    ELSE IF n < 10 THEN Digits[n + 1]
    ELSE NumberToString(n \div 10) \o Digits[(n % 10) + 1]

\* `${value}` for a present value: String(value)
TemplateString(value) ==
    CASE value.kind = "number" ->
             IF value.s = "NaN" THEN "NaN" ELSE NumberToString(value.n)
      [] value.kind = "string" -> value.s
      [] value.kind = "boolean" -> IF value.n = 1 THEN "true" ELSE "false"
      [] value.kind = "promise" -> "[object Promise]"
      [] value.kind \in ErrorClasses ->
             IF value.s = "" THEN value.kind ELSE value.kind \o ": " \o value.s
      [] OTHER -> "[object Object]"

\* JSON.stringify(value) throws: on a cyclic object.  No object of the model is
\* cyclic.
JSONStringifyThrows(value) == value.kind = "object" /\ value.s = "cyclic"

\* JSON.stringify(value) for an object or a string of the model: a string in
\* double quotes (the strings of the model hold no character to escape), {} for
\* an object without enumerable properties.
JSONStringify(value) ==
    IF value.kind = "string" THEN "\"" \o value.s \o "\"" ELSE "{}"

toString_unquoted(h, this) ==
    IF isPresent(h, this)
    THEN IF TypeOf(h[this]) = "object" /\ ~JSONStringifyThrows(h[this])
         THEN "Optional.Present<" \o JSONStringify(h[this]) \o ">"
         ELSE "Optional.Present<" \o TemplateString(h[this]) \o ">"
    ELSE "Optional.Empty"

\* toString()
toString(h, this) ==
    IF isPresent(h, this)
    THEN IF TypeOf(h[this]) = "object" \/ TypeOf(h[this]) = "string"
         THEN IF JSONStringifyThrows(h[this])
              THEN "Optional.Present<" \o TemplateString(h[this]) \o ">"
              ELSE "Optional.Present<" \o JSONStringify(h[this]) \o ">"
         ELSE "Optional.Present<" \o TemplateString(h[this]) \o ">"
    ELSE "Optional.Empty"

(***************************************************************************)
(* The state machine: a caller that constructs containers and calls the    *)
(* operations on the containers it holds, in any order.                    *)
(***************************************************************************)
Call(op, this, cb, arg, ref, val, bool, calls) ==
    [op |-> op, this |-> this, cb |-> cb, arg |-> arg, ref |-> ref, val |-> val,
     bool |-> bool, calls |-> calls, outcome |-> "return"]

Init ==
    /\ heap = <<>>
    /\ last = Call("none", 0, NoCallback, Undefined, 0, Undefined, FALSE, <<>>)

\* Optional(value)
Of(value) ==
    LET r == Optional(heap, value)
    IN  /\ Len(r.heap) <= MaxHeap
        /\ heap' = r.heap
        /\ last' = Call("of", 0, NoCallback, value, r.ref, Undefined, FALSE, <<>>)

\* Optional.empty()
Empty ==
    LET r == Optional_empty(heap)
    IN  /\ Len(r.heap) <= MaxHeap
        /\ heap' = r.heap
        /\ last' = Call("empty", 0, NoCallback, Undefined, r.ref, Undefined, FALSE, <<>>)

Get(this) ==
    /\ last' = Call("get", this, NoCallback, Undefined, 0, get(heap, this), FALSE, <<>>)
    /\ UNCHANGED heap

IsPresent(this) ==
    /\ last' = Call("isPresent", this, NoCallback, Undefined, 0, Undefined,
                    isPresent(heap, this), <<>>)
    /\ UNCHANGED heap

IsEmpty(this) ==
    /\ last' = Call("isEmpty", this, NoCallback, Undefined, 0, Undefined,
                    isEmpty(heap, this), <<>>)
    /\ UNCHANGED heap

Filter(this, predicate) ==
    LET r == filter(heap, this, predicate)
    IN  /\ Len(r.heap) <= MaxHeap
        /\ heap' = r.heap
        /\ last' = [Call("filter", this, predicate, Undefined, r.ref, r.val, FALSE,
                         r.calls) EXCEPT !.outcome = r.outcome]

Map(this, mapper) ==
    LET r == map(heap, this, mapper)
    IN  /\ Len(r.heap) <= MaxHeap
        /\ heap' = r.heap
        /\ last' = [Call("map", this, mapper, Undefined, r.ref, r.val, FALSE, r.calls)
                        EXCEPT !.outcome = r.outcome]

FlatMap(this, mapper) ==
    LET r == flatMap(heap, this, mapper)
    IN  /\ Len(r.heap) <= MaxHeap
        /\ heap' = r.heap
        /\ last' = [Call("flatMap", this, mapper, Undefined, r.ref, r.val, FALSE,
                         r.calls) EXCEPT !.outcome = r.outcome]

OrElse(this, other) ==
    /\ last' = Call("orElse", this, NoCallback, other, 0, orElse(heap, this, other),
                    FALSE, <<>>)
    /\ UNCHANGED heap

OrElseGet(this, other) ==
    LET r == orElseGet(heap, this, other)
    IN  /\ last' = [Call("orElseGet", this, other, Undefined, 0, r.val, FALSE, r.calls)
                        EXCEPT !.outcome = r.outcome]
        /\ UNCHANGED heap

Equals(this, other, comparator) ==
    LET r == equals(heap, this, other, comparator)
    IN  /\ last' = [Call("equals", this, comparator, Undefined, other, r.val, r.bool,
                         r.calls) EXCEPT !.outcome = r.outcome]
        /\ UNCHANGED heap

Contains(this, value) ==
    /\ last' = Call("contains", this, NoCallback, value, 0, Undefined,
                    contains(heap, this, value), <<>>)
    /\ UNCHANGED heap

IfPresent(this, consumer) ==
    LET r == ifPresent(heap, this, consumer)
    IN  /\ last' = [Call("ifPresent", this, consumer, Undefined, r.ref, r.val, FALSE,
                         r.calls) EXCEPT !.outcome = r.outcome]
        /\ heap' = r.heap

IfEmpty(this, consumer) ==
    LET r == ifEmpty(heap, this, consumer)
    IN  /\ last' = [Call("ifEmpty", this, consumer, Undefined, r.ref, r.val, FALSE,
                         r.calls) EXCEPT !.outcome = r.outcome]
        /\ heap' = r.heap

OrElseThrow(this, messageOrErrorSupplier) ==
    LET r == orElseThrow(heap, this, messageOrErrorSupplier)
    IN  /\ last' = [Call("orElseThrow", this, messageOrErrorSupplier, Undefined, 0, r.val,
                         FALSE, r.calls) EXCEPT !.outcome = r.outcome]
        /\ UNCHANGED heap

ToPromise(this, messageOrErrorSupplier) ==
    LET r == toPromise(heap, this, messageOrErrorSupplier)
    IN  /\ last' = [Call("toPromise", this, messageOrErrorSupplier, Undefined, 0, r.val,
                         FALSE, r.calls) EXCEPT !.outcome = r.outcome]
        /\ UNCHANGED heap

ToString(this) ==
    /\ last' = Call("toString", this, NoCallback, Undefined, 0, Str(toString(heap, this)),
                    FALSE, <<>>)
    /\ UNCHANGED heap

Next ==
    \/ \E value \in Values : Of(value)
    \/ Empty
    \/ \E this \in DOMAIN heap : Get(this)
    \/ \E this \in DOMAIN heap : IsPresent(this)
    \/ \E this \in DOMAIN heap : IsEmpty(this)
    \/ \E this \in DOMAIN heap : \E predicate \in Predicates : Filter(this, predicate)
    \/ \E this \in DOMAIN heap : \E mapper \in Mappers : Map(this, mapper)
    \/ \E this \in DOMAIN heap : \E mapper \in FlatMappers(heap) : FlatMap(this, mapper)
    \/ \E this \in DOMAIN heap : \E other \in Others : OrElse(this, other)
    \/ \E this \in DOMAIN heap : \E other \in Suppliers : OrElseGet(this, other)
    \/ \E this \in DOMAIN heap : \E other \in DOMAIN heap :
           \E comparator \in Comparators \cup {NoCallback} : Equals(this, other, comparator)
    \/ \E this \in DOMAIN heap : \E value \in Needles : Contains(this, value)
    \/ \E this \in DOMAIN heap : \E consumer \in Consumers : IfPresent(this, consumer)
    \/ \E this \in DOMAIN heap : \E consumer \in Consumers : IfEmpty(this, consumer)
    \/ \E this \in DOMAIN heap :
           \E messageOrErrorSupplier \in ErrorArguments :
               OrElseThrow(this, messageOrErrorSupplier)
    \/ \E this \in DOMAIN heap :
           \E messageOrErrorSupplier \in ErrorArguments :
               ToPromise(this, messageOrErrorSupplier)
    \/ \E this \in DOMAIN heap : ToString(this)

Spec == Init /\ [][Next]_vars

(***************************************************************************)
(* Properties.                                                             *)
(***************************************************************************)
AbsenceMarkers == {Undefined, Null}

\* The receiver of the last call holds a value that is neither absence marker.
ReceiverPresent == last.this \in DOMAIN heap /\ heap[last.this] \notin AbsenceMarkers

\* The receiver of the last call holds no value.
ReceiverEmpty == last.this \in DOMAIN heap /\ heap[last.this] \in AbsenceMarkers

\* C1: for every value v that is neither null nor undefined (0, "", false and NaN
\* included), the container Optional(v) returns is present, is not empty, and
\* get() returns exactly v.
C1_OfValueIsPresent ==
    (last.op = "of" /\ last.arg \notin AbsenceMarkers)
        => /\ isPresent(heap, last.ref)
           /\ ~isEmpty(heap, last.ref)
           /\ get(heap, last.ref) = last.arg

\* Optional(0) was called and returned a container holding 0.
C1_Witness ==
    /\ last.op = "of"
    /\ last.arg = Num(0)
    /\ get(heap, last.ref) = Num(0)
    /\ isPresent(heap, last.ref)

\* C2: the container Optional(null) or Optional(undefined) returns is empty, its
\* get() returns null, and it equals, in both directions, every empty container:
\* the ones Optional(null), Optional(undefined) and Optional.empty() returned.
C2_OfMarkerIsEmpty ==
    (last.op = "of" /\ last.arg \in AbsenceMarkers)
        => /\ isEmpty(heap, last.ref)
           /\ get(heap, last.ref) = Null
           /\ \A c \in DOMAIN heap :
                  isEmpty(heap, c)
                      => /\ equals(heap, last.ref, c, NoCallback).bool
                         /\ equals(heap, c, last.ref, NoCallback).bool

\* Optional(undefined) was called after another empty container was built, and
\* the two are equal.
C2_Witness ==
    /\ last.op = "of"
    /\ last.arg = Undefined
    /\ last.ref = 2
    /\ get(heap, 2) = Null
    /\ isEmpty(heap, 1)
    /\ equals(heap, 1, 2, NoCallback).bool

\* C3: no container ever holds undefined, and a container is present exactly
\* when its get() is not null.
C3_SlotNeverUndefined ==
    \A c \in DOMAIN heap :
        /\ get(heap, c) # Undefined
        /\ isPresent(heap, c) <=> (get(heap, c) # Null)

\* map was called on a present container with a mapper returning undefined, and
\* returned a container holding null.
C3_Witness ==
    /\ last.op = "map"
    /\ last.cb = Callback("const", "", Undefined, 0)
    /\ Len(last.calls) = 1
    /\ get(heap, last.ref) = Null

\* C4: for every container, isEmpty() is the negation of isPresent(), and a call
\* of either returns that result.
C4_EmptyIsNotPresent ==
    /\ \A c \in DOMAIN heap : isEmpty(heap, c) = ~isPresent(heap, c)
    /\ last.op = "isEmpty" => last.bool = ~isPresent(heap, last.this)
    /\ last.op = "isPresent" => last.bool = ~isEmpty(heap, last.this)

\* isEmpty() was called on a container holding 0 and returned false.
C4_Witness ==
    /\ last.op = "isEmpty"
    /\ get(heap, last.this) = Num(0)
    /\ last.bool = FALSE

\* C5: filter on a present container holding v invokes the predicate once, with
\* v; when the predicate holds the result is the receiver, when it does not the
\* result is an empty container whose get() is null (a predicate that throws
\* gives no result).
C5_FilterPresent ==
    (last.op = "filter" /\ ReceiverPresent)
        => /\ last.calls = <<heap[last.this]>>
           /\ Throws(last.cb)
                  \/ IF ApplyPredicate(last.cb, heap[last.this])
                     THEN last.ref = last.this
                     ELSE /\ last.ref # last.this
                          /\ isEmpty(heap, last.ref)
                          /\ get(heap, last.ref) = Null

\* filter(value => value > 0) was called on a container holding 0 and returned
\* another container, which is empty.
C5_Witness ==
    /\ last.op = "filter"
    /\ last.cb.kind = "positive"
    /\ get(heap, last.this) = Num(0)
    /\ last.ref # last.this
    /\ isEmpty(heap, last.ref)

\* C6: map on a present container holding v invokes the mapper once, with v, and
\* returns a present container holding mapper(v) when mapper(v) is neither null
\* nor undefined, an empty container holding null otherwise (a mapper that
\* throws gives no result).
C6_MapPresent ==
    (last.op = "map" /\ ReceiverPresent)
        => LET mapped == ApplyMapper(last.cb, heap[last.this])
           IN  /\ last.calls = <<heap[last.this]>>
               /\ Throws(last.cb)
                      \/ IF mapped \notin AbsenceMarkers
                         THEN isPresent(heap, last.ref) /\ get(heap, last.ref) = mapped
                         ELSE isEmpty(heap, last.ref) /\ get(heap, last.ref) = Null

\* map(() => false) was called on a container holding 1 and returned a present
\* container holding false.
C6_Witness ==
    /\ last.op = "map"
    /\ last.cb = Callback("const", "", Bool(FALSE), 0)
    /\ get(heap, last.this) = Num(1)
    /\ isPresent(heap, last.ref)
    /\ get(heap, last.ref) = Bool(FALSE)

\* C7: a call of flatMap on a present container holding v returns exactly the
\* container mapper(v) returned, and constructs no container but the ones the
\* mapper constructed (for a mapper that returns).
C7_FlatMapReturnsMappers ==
    [][(last'.op = "flatMap" /\ last'.this \in DOMAIN heap
            /\ heap[last'.this] \notin AbsenceMarkers /\ ~Throws(last'.cb))
          => LET r == ApplyFlatMapper(heap, last'.cb, heap[last'.this])
             IN  /\ last'.ref = r.ref
                 /\ heap' = r.heap
                 /\ last'.calls = <<heap[last'.this]>>]_vars

\* flatMap was called on a present container with a mapper returning an empty
\* container built earlier, and returned that container.
C7_Witness ==
    /\ last.op = "flatMap"
    /\ ReceiverPresent
    /\ last.cb.kind = "existing"
    /\ last.ref = last.cb.ref
    /\ last.ref # last.this
    /\ isEmpty(heap, last.ref)

\* C8: on an empty receiver filter, map and flatMap invoke no callback and return
\* the receiver, which is empty.
C8_EmptyReceiverSkipsCallback ==
    (last.op \in {"filter", "map", "flatMap"} /\ ReceiverEmpty)
        => /\ last.calls = <<>>
           /\ last.ref = last.this
           /\ isEmpty(heap, last.ref)

\* filter(() => false) was called on an empty container and returned it.
C8_Witness ==
    /\ last.op = "filter"
    /\ last.cb.kind = "constFalse"
    /\ ReceiverEmpty
    /\ last.ref = last.this

\* C9: orElse returns the contained value of a present receiver and its argument
\* on an empty one; orElseGet returns the contained value of a present receiver
\* and the supplier's result on an empty one.
C9_OrElseValue ==
    /\ last.op = "orElse"
           => last.val = IF ReceiverPresent THEN heap[last.this] ELSE last.arg
    /\ (last.op = "orElseGet" /\ last.outcome = "return")
           => last.val = IF ReceiverPresent THEN heap[last.this]
                         ELSE ApplySupplier(last.cb)

\* orElse(1) was called on a container holding 0 and returned 0.
C9_Witness ==
    /\ last.op = "orElse"
    /\ get(heap, last.this) = Num(0)
    /\ last.arg = Num(1)
    /\ last.val = Num(0)

\* C10: orElseGet invokes the supplier no time on a present receiver and once on
\* an empty one.
C10_OrElseGetLazy ==
    last.op = "orElseGet"
        => Len(last.calls) = IF ReceiverPresent THEN 0 ELSE 1

\* orElseGet was called on a container holding false and did not invoke the
\* supplier.
C10_Witness ==
    /\ last.op = "orElseGet"
    /\ get(heap, last.this) = Bool(FALSE)
    /\ last.calls = <<>>
    /\ last.val = Bool(FALSE)

\* C11: orElseThrow raises exactly when the receiver is empty: on a present
\* receiver it returns the contained value and invokes no supplier, on an empty
\* one it raises, whatever its argument.
C11_ThrowsIffEmpty ==
    last.op = "orElseThrow"
        => IF ReceiverPresent
           THEN /\ last.outcome = "return"
                /\ last.val = heap[last.this]
                /\ last.calls = <<>>
           ELSE last.outcome = "throw"

\* orElseThrow was called with an error supplier on a container holding 0 and
\* returned 0 without invoking the supplier.
C11_Witness ==
    /\ last.op = "orElseThrow"
    /\ last.cb.kind = "errorSupplier"
    /\ get(heap, last.this) = Num(0)
    /\ last.outcome = "return"
    /\ last.val = Num(0)
    /\ last.calls = <<>>

\* C12: orElseThrow() without argument on an empty container raises an Error of
\* the base class whose message is "Value not present.".
C12_DefaultError ==
    (last.op = "orElseThrow" /\ ReceiverEmpty /\ last.cb = NoCallback)
        => /\ last.outcome = "throw"
           /\ last.val.kind = "Error"
           /\ last.val.s = "Value not present."

\* orElseThrow() was called on an empty container and raised the default error.
C12_Witness ==
    /\ last.op = "orElseThrow"
    /\ ReceiverEmpty
    /\ last.cb = NoCallback
    /\ last.outcome = "throw"
    /\ last.val = ErrorObject("Error", 0, "Value not present.")

\* C13: for every string s, the empty one included, orElseThrow(s) on an empty
\* container raises, and toPromise(s) rejects with, an Error whose message is s.
C13_MessageIsArgument ==
    (last.op \in {"orElseThrow", "toPromise"} /\ ReceiverEmpty
            /\ last.cb.kind = "message")
        => /\ last.outcome = IF last.op = "orElseThrow" THEN "throw" ELSE "rejected"
           /\ last.val.kind = "Error"
           /\ last.val.s = last.cb.val.s

\* C14: orElseThrow(fn) on an empty container invokes fn once and raises the
\* object fn returned: same identity, same class, same message.
C14_SuppliedError ==
    (last.op = "orElseThrow" /\ ReceiverEmpty /\ last.cb.kind = "errorSupplier")
        => /\ last.outcome = "throw"
           /\ last.val = ApplySupplier(last.cb)
           /\ Len(last.calls) = 1

\* orElseThrow(() => TypeError("Expected type.")) was called on an empty
\* container and raised that TypeError.
C14_Witness ==
    /\ last.op = "orElseThrow"
    /\ ReceiverEmpty
    /\ last.cb.kind = "errorSupplier"
    /\ last.outcome = "throw"
    /\ last.val = ErrorObject("TypeError", 1, "Expected type.")
    /\ Len(last.calls) = 1

\* C15: toPromise(arg) agrees with orElseThrow(arg) for every arg that is left
\* out, a string or a function returning an error: when orElseThrow returns v
\* the promise is fulfilled with v, when orElseThrow raises e the promise is
\* rejected with the error the same rule gives, the supplier invoked as often.
C15_PromiseAgreesWithThrow ==
    (last.op = "toPromise" /\ ~Throws(last.cb))
        => LET t == orElseThrow(heap, last.this, last.cb)
           IN  /\ last.outcome = IF t.outcome = "return" THEN "fulfilled" ELSE "rejected"
               /\ last.val = t.val
               /\ last.calls = t.calls

\* C16: the promise toPromise returns is settled when toPromise returns:
\* fulfilled with the contained value on a present receiver, rejected on an
\* empty one, never pending.
C16_PromiseSettled ==
    last.op = "toPromise"
        => IF ReceiverPresent
           THEN last.outcome = "fulfilled" /\ last.val = heap[last.this]
           ELSE last.outcome = "rejected"

\* C17: equals returns true for two empty containers, false when exactly one is
\* empty, and for two present ones the comparator's result when a comparator is
\* given and strict equality of the values otherwise; the comparator is invoked
\* only for two present containers, once, with the two values.
C17_Equals ==
    last.op = "equals"
        => LET a == heap[last.this]
               b == heap[last.ref]
           IN  IF a \in AbsenceMarkers /\ b \in AbsenceMarkers
               THEN last.bool /\ last.calls = <<>>
               ELSE IF a \in AbsenceMarkers \/ b \in AbsenceMarkers
                    THEN ~last.bool /\ last.calls = <<>>
                    ELSE IF last.cb # NoCallback
                         THEN /\ Throws(last.cb)
                                     \/ last.bool = ApplyComparator(last.cb, a, b)
                              /\ last.calls = <<a, b>>
                         ELSE /\ last.bool = StrictEquals(a, b)
                              /\ last.calls = <<>>

\* equals was called with the typeof comparator on containers holding 0 and 1
\* and returned true.
C17_Witness ==
    /\ last.op = "equals"
    /\ last.cb.kind = "sameType"
    /\ get(heap, last.this) = Num(0)
    /\ get(heap, last.ref) = Num(1)
    /\ last.bool

\* C18: contains(value) is true exactly when the receiver is present and its
\* value is strictly equal to value; on an empty receiver it is false, also for
\* null and undefined.
C18_Contains ==
    last.op = "contains"
        => /\ last.bool = (ReceiverPresent /\ StrictEquals(heap[last.this], last.arg))
           /\ ReceiverEmpty => ~last.bool

\* contains(null) was called on an empty container and returned false.
C18_Witness ==
    /\ last.op = "contains"
    /\ ReceiverEmpty
    /\ last.arg = Null
    /\ last.bool = FALSE

\* C19: toString() returns "Optional.Empty" for an empty container and
\* "Optional.Present<" rendering ">" for a present one, a number rendered as its
\* plain text and a string in double quotes; no present container has the text
\* of an empty one.
C19_ToString ==
    /\ last.op = "toString"
           => IF ReceiverEmpty
              THEN last.val = Str("Optional.Empty")
              ELSE /\ last.val # Str("Optional.Empty")
                   /\ heap[last.this] = Num(0) => last.val = Str("Optional.Present<0>")
                   /\ heap[last.this] = Num(1) => last.val = Str("Optional.Present<1>")
                   /\ heap[last.this] = Str("") => last.val = Str("Optional.Present<\"\">")
    /\ \A c, d \in DOMAIN heap :
           (isPresent(heap, c) /\ isEmpty(heap, d)) => toString(heap, c) # toString(heap, d)
    /\ toString(<<Num(123)>>, 1) = "Optional.Present<123>"
    /\ toString(<<Str("123")>>, 1) = "Optional.Present<\"123\">"

\* toString() was called on a container holding the empty string and returned
\* the text with the string in double quotes.
C19_Witness ==
    /\ last.op = "toString"
    /\ get(heap, last.this) = Str("")
    /\ last.val = Str("Optional.Present<\"\">")

\* C20: ifPresent has invoked the consumer once, with the contained value, when
\* it returns from a present receiver and not at all from an empty one; ifEmpty
\* has invoked it once when it returns from an empty receiver and not at all
\* from a present one; both return the receiver.
C20_Inspection ==
    /\ last.op = "ifPresent"
           => /\ last.outcome = "return" => last.ref = last.this
              /\ last.calls = IF ReceiverPresent THEN <<heap[last.this]>> ELSE <<>>
    /\ last.op = "ifEmpty"
           => /\ last.outcome = "return" => last.ref = last.this
              /\ Len(last.calls) = IF ReceiverEmpty THEN 1 ELSE 0

\* ifPresent was called on a container holding 0, invoked the consumer with 0
\* and returned the container.
C20_Witness ==
    /\ last.op = "ifPresent"
    /\ get(heap, last.this) = Num(0)
    /\ last.calls = <<Num(0)>>
    /\ last.ref = last.this

\* The operations that take a caller-supplied function.
CallbackOperations ==
    {"filter", "map", "flatMap", "ifPresent", "ifEmpty", "orElseGet", "equals",
     "orElseThrow", "toPromise"}

\* The last call reached the invocation of its callback: a predicate, a mapper
\* and the consumer of ifPresent on a present receiver, a supplier and the
\* consumer of ifEmpty on an empty one, a comparator on two present containers.
CallbackReached ==
    /\ last.op \in CallbackOperations
    /\ last.cb # NoCallback
    /\ last.cb.kind # "message"
    /\ CASE last.op \in {"filter", "map", "flatMap", "ifPresent"} -> ReceiverPresent
         [] last.op = "equals" ->
                ReceiverPresent /\ heap[last.ref] \notin AbsenceMarkers
         [] OTHER -> ReceiverEmpty

\* C21: when the callback of the call does not throw, every operation other
\* than orElseThrow and toPromise (construction, get, isPresent, isEmpty,
\* ifPresent, ifEmpty, filter, map, flatMap, orElse, orElseGet, equals, contains)
\* returns normally on every container, and get on an empty one returns null.
C21_OnlyExtractionRaises ==
    (last.op \notin {"none", "orElseThrow", "toPromise"} /\ ~Throws(last.cb))
        => /\ last.outcome = "return"
           /\ (last.op = "get" /\ ReceiverEmpty) => last.val = Null

\* orElseGet was called on an empty container with a supplier that returns, and
\* returned the supplier's value.
C21_Witness ==
    /\ last.op = "orElseGet"
    /\ ReceiverEmpty
    /\ last.cb = Callback("const", "", Num(1), 0)
    /\ last.outcome = "return"
    /\ last.val = Num(1)

\* C22: when the callback of a call throws, the call ends by throwing the same
\* error object, after one invocation of the callback; toPromise on an empty
\* container with a throwing error supplier throws and returns no promise.
C22_CallbackErrorPropagates ==
    (CallbackReached /\ Throws(last.cb))
        => /\ last.outcome = "throw"
           /\ last.val = ThrownError
           /\ Len(last.calls) = 1 \/ last.calls = <<heap[last.this], heap[last.ref]>>

\* toPromise was called on an empty container with a throwing error supplier
\* and threw the supplier's error.
C22_Witness ==
    /\ last.op = "toPromise"
    /\ ReceiverEmpty
    /\ last.cb = Thrower
    /\ last.outcome = "throw"
    /\ last.val = ThrownError

\* C23: no call changes what get() and isPresent() return for a container that
\* exists before it, whether the call returns or throws.
C23_Immutable ==
    [][\A c \in DOMAIN heap :
           /\ c \in DOMAIN heap'
           /\ get(heap', c) = get(heap, c)
           /\ isPresent(heap', c) = isPresent(heap, c)]_vars

\* filter(() => false) was called on a present container, which is still
\* present, and returned another container.
C23_Witness ==
    /\ last.op = "filter"
    /\ last.cb.kind = "constFalse"
    /\ last.ref # last.this
    /\ isPresent(heap, last.this)
    /\ get(heap, last.this) = Num(1)

\* C24: the container Optional(value) returns is the one OptionalValue.of(value)
\* returns from the same heap (same presence, same get()), and the container
\* Optional.empty() returns is the one OptionalValue.empty() returns.
C24_EntryPoint ==
    /\ last.op = "of"
           => LET r == of(SubSeq(heap, 1, Len(heap) - 1), last.arg)
              IN  /\ last.ref = r.ref
                  /\ isPresent(heap, last.ref) = isPresent(r.heap, r.ref)
                  /\ get(heap, last.ref) = get(r.heap, r.ref)
    /\ last.op = "empty"
           => LET r == empty(SubSeq(heap, 1, Len(heap) - 1))
              IN  /\ last.ref = r.ref
                  /\ isPresent(heap, last.ref) = isPresent(r.heap, r.ref)
                  /\ get(heap, last.ref) = get(r.heap, r.ref)

\* Optional(undefined) was called and returned an empty container whose get() is
\* null.
C24_Witness ==
    /\ last.op = "of"
    /\ last.arg = Undefined
    /\ isEmpty(heap, last.ref)
    /\ get(heap, last.ref) = Null

\* The operations of a chain.
ChainOperations == {"filter", "map", "flatMap"}

\* C25: when a call of filter, map or flatMap is made on the container the
\* previous call (a construction or a call of filter, map or flatMap) returned,
\* and that container is empty, the call invokes no callback and returns an empty
\* container.
C25_EmptyAbsorbs ==
    [][(/\ last.op \in ChainOperations \cup {"of", "empty"}
        /\ last.outcome = "return"
        /\ isEmpty(heap, last.ref)
        /\ last'.op \in ChainOperations
        /\ last'.this = last.ref)
          => /\ last'.outcome = "return"
             /\ last'.calls = <<>>
             /\ last'.ref \in DOMAIN heap'
             /\ isEmpty(heap', last'.ref)]_vars

\* map(() => 0) was called on an empty container that follows a present one in
\* the heap, invoked no mapper and returned an empty container.
C25_Witness ==
    /\ last.op = "map"
    /\ last.cb = Callback("const", "", Num(0), 0)
    /\ last.this = 2
    /\ isPresent(heap, 1)
    /\ isEmpty(heap, 2)
    /\ last.calls = <<>>
    /\ isEmpty(heap, last.ref)

\* (v) => Optional(f(v)) for the mapper f
OfMapper(f) == Callback("of", f.kind, f.val, 0)

\* The mapper f of the flatMap mapper (v) => Optional(f(v))
InnerMapper(mapper) == Callback(mapper.inner, "", mapper.val, 0)

\* C26: a call c.map(f) ends as c.flatMap(v => Optional(f(v))) does, and a call
\* c.flatMap(v => Optional(f(v))) as c.map(f) does: both return or both throw,
\* the containers returned have the same presence and the same get(), and f is
\* invoked the same number of times.
C26_MapIsFlatMapOf ==
    /\ last.op = "map"
           => LET r == flatMap(heap, last.this, OfMapper(last.cb))
              IN  /\ r.outcome = last.outcome
                  /\ Len(r.calls) = Len(last.calls)
                  /\ last.outcome = "return"
                         => /\ isPresent(r.heap, r.ref) = isPresent(heap, last.ref)
                            /\ get(r.heap, r.ref) = get(heap, last.ref)
    /\ (last.op = "flatMap" /\ last.cb.kind = "of")
           => LET r == map(heap, last.this, InnerMapper(last.cb))
              IN  /\ r.outcome = last.outcome
                  /\ Len(r.calls) = Len(last.calls)
                  /\ last.outcome = "return"
                         => /\ isPresent(r.heap, r.ref) = isPresent(heap, last.ref)
                            /\ get(r.heap, r.ref) = get(heap, last.ref)

\* map(() => null) was called on a container holding 1 and returned an empty
\* container, as flatMap(v => Optional(null)) does.
C26_Witness ==
    /\ last.op = "map"
    /\ last.cb = Callback("const", "", Null, 0)
    /\ get(heap, last.this) = Num(1)
    /\ isEmpty(heap, last.ref)
    /\ last.ref # last.this
    /\ Len(last.calls) = 1

\* C27: a.equals(b) without a comparator returns what b.equals(a) returns.
C27_EqualsSymmetric ==
    (last.op = "equals" /\ last.cb = NoCallback)
        => last.bool = equals(heap, last.ref, last.this, NoCallback).bool

\* equals was called without a comparator on an empty container, with a present
\* one as argument, and returned false.
C27_Witness ==
    /\ last.op = "equals"
    /\ last.cb = NoCallback
    /\ ReceiverEmpty
    /\ isPresent(heap, last.ref)
    /\ ~last.bool

\* C28: c.equals(c) without a comparator returns true, and so does a.equals(b)
\* for two containers built from the same value.
C28_EqualsReflexive ==
    (/\ last.op = "equals"
     /\ last.cb = NoCallback
     /\ last.this = last.ref \/ heap[last.this] = heap[last.ref])
        => last.bool

====
